---- MODULE Spec2Model ----
(***************************************************************************)
(* File integrity monitor: the baseline store (fim/database.py), the path  *)
(* matcher, the baseline scan and the integrity check (fim/monitor.py) and *)
(* the fingerprinter (fim/hasher.py), over a small filesystem whose files  *)
(* are created, deleted and rewritten by the environment.                  *)
(*                                                                         *)
(* Paths are sequences of one-character strings, so that str.startswith    *)
(* is a real prefix test and os.path.abspath a real conversion.            *)
(***************************************************************************)
EXTENDS Integers, Sequences, FiniteSets, TLC

----------------------------------------------------------------------------
(* Bounds of the model *)

\* the clock (time.time(), st_mtime, st_ctime) stops advancing here
MaxClock == 4
\* largest file size, in bytes
MaxSize == 2
\* how many file or storage operations may fail within one call
MaxFaults == 1

----------------------------------------------------------------------------
(* The filesystem universe: two files below the directory /d *)

FileA == <<"/", "d", "/", "a">>
FileB == <<"/", "d", "/", "x", "/", "b">>

AllFiles == {FileA, FileB}

\* the order in which the model lists the members of a Python set
FileOrder == <<FileA, FileB>>

\* the directories of the tree; they exist throughout
Dirs == { <<"/">>, <<"/", "d">>, <<"/", "d", "/", "x">> }

\* the process's working directory (os.getcwd())
Cwd == <<"/">>

\* st_mode of a regular file with permissions 0o644 and 0o600
Mode644 == 33188
Mode600 == 33152

\* what a file may hold: the two texts the tests write
Contents == {"hello", "world"}

NoFile == [present |-> FALSE, size |-> 0, mtime |-> 0, ctime |-> 0,
           mode |-> 0, content |-> ""]

\* what get_baseline_entry returns for a path without a row: None
NoEntry == [file_path |-> <<>>, file_hash |-> <<>>, file_size |-> 0,
            modification_time |-> 0, creation_time |-> 0,
            permissions |-> 0, baseline_timestamp |-> 0]

----------------------------------------------------------------------------
(* Configurations: fim_config.yaml's include and exclude lists, and         *)
(* config.yaml's hash_algorithm                                            *)

\* include /d, exclude "/d/x/" (trailing separator): abspath gives /d/x
Config1 == [include |-> << <<"/", "d">> >>,
            exclude |-> << <<"/", "d", "/", "x", "/">> >>]
\* include the relative "d" and the overlapping /d/x, exclude nothing
Config2 == [include |-> << <<"d">>, <<"/", "d", "/", "x">> >>,
            exclude |-> <<>>]
\* include /d/x and a root that does not exist, exclude the file /d/x/b
Config3 == [include |-> << <<"/", "d", "/", "x">>, <<"/", "n">> >>,
            exclude |-> << FileB >>]

Configs == {Config1, Config2, Config3}

\* hash_algorithm as the configuration file may spell it
AlgSHA256 == <<"S", "H", "A", "2", "5", "6">>
AlgBogus == <<"c", "r", "c", "9">>
Algorithms == {AlgSHA256, AlgBogus}

\* hashlib.algorithms_available, as far as the model names algorithms
AlgorithmsAvailable == { <<"s", "h", "a", "2", "5", "6">>, <<"m", "d", "5">> }

\* the mask of the permission bits, 0o777
PermMask == 511

VARIABLES
    monitored_paths,  \* FileIntegrityMonitor.monitored_paths
    algorithm,        \* HASH_ALGORITHM
    fs,               \* the filesystem: file -> its stat and content
    db,               \* table monitored_files: a set of rows
    now,              \* the clock
    pc,               \* "idle", or "compare" inside check_integrity
    chk,              \* check_integrity's locals between walk and compare
    call,             \* the step just taken: operation, inputs, outcome
    changes,          \* the dict check_integrity just returned
    hashed,           \* the files that check passed to calculate_file_hash
    got,              \* what get_baseline_entry just returned
    clean,            \* the store is a complete baseline of an unchanged tree
    db_exists         \* the database file exists (os.path.exists(database))

vars == <<monitored_paths, algorithm, fs, db, now, pc, chk, call, changes,
          hashed, got, clean, db_exists>>

----------------------------------------------------------------------------
(* Strings and paths *)

\* str.startswith
StartsWith(s, prefix) ==
    /\ Len(prefix) <= Len(s)
    /\ SubSeq(s, 1, Len(prefix)) = prefix

\* os.path.join(a, b)
Join(a, b) ==
    IF b # <<>> /\ b[1] = "/" THEN b
    ELSE IF a = <<>> \/ a[Len(a)] = "/" THEN a \o b
    ELSE a \o <<"/">> \o b

RECURSIVE CollapseSeps(_)
CollapseSeps(s) ==
    IF Len(s) <= 1 THEN s
    ELSE IF s[1] = "/" /\ s[2] = "/" THEN CollapseSeps(Tail(s))
    ELSE <<s[1]>> \o CollapseSeps(Tail(s))

\* os.path.normpath, for paths without "." and ".." components
NormPath(p) ==
    LET c == CollapseSeps(p)
    IN  IF Len(c) > 1 /\ c[Len(c)] = "/" THEN SubSeq(c, 1, Len(c) - 1) ELSE c

\* os.path.abspath
AbsPath(p) == NormPath(Join(Cwd, p))

\* the members of S in the model's listing order
ListOf(S) ==
    LET InS(f) == f \in S
    IN  SelectSeq(FileOrder, InS)

Range(s) == {s[i] : i \in 1..Len(s)}

\* the failures injected into one call: pairs <<kind, file>>, with kind
\* "io" (reading the file), "stat" (os.stat), "put" and "get" (sqlite3.Error)
FaultSets(files) ==
    {F \in SUBSET ({"io", "stat", "put", "get"} \X files) :
        Cardinality(F) <= MaxFaults}

Failing(faults, kind) == {x[2] : x \in {y \in faults : y[1] = kind}}

----------------------------------------------------------------------------
(* The filesystem as the program sees it *)

\* os.path.exists
Exists(p) == p \in Dirs \/ (p \in AllFiles /\ fs[p].present)

\* root is a directory and f a file somewhere below it
IsUnder(f, root) ==
    LET r == IF root = <<"/">> THEN root ELSE root \o <<"/">>
    IN  StartsWith(f, r) /\ Len(f) > Len(r)

\* the files os.walk(root) yields, each joined to its directory
Walk(root) == {f \in AllFiles : fs[f].present /\ IsUnder(f, root)}

\* str.lower, on the letters algorithm names are written with
LowerChar(c) ==
    CASE c = "S" -> "s" [] c = "H" -> "h" [] c = "A" -> "a"
      [] c = "M" -> "m" [] c = "D" -> "d" [] OTHER -> c

Lower(s) == [i \in 1..Len(s) |-> LowerChar(s[i])]

\* hashlib's hexdigest: one value per algorithm and content
Digest(alg, content) == <<alg, content>>

NoHash == [ok |-> FALSE, err |-> "none", value |-> <<>>]

\* a fingerprinter that looks at the algorithm before it looks for the file
CalculateFileHashAlgFirst(file_path, alg, ioFail) ==
    IF Lower(alg) \notin AlgorithmsAvailable
    THEN [NoHash EXCEPT !.err = "ValueError"]
    ELSE IF ~Exists(file_path)
    THEN [NoHash EXCEPT !.err = "FileNotFoundError"]
    ELSE IF file_path \in ioFail \/ file_path \notin AllFiles
    THEN [NoHash EXCEPT !.err = "OSError"]
    ELSE [ok |-> TRUE, err |-> "none",
          value |-> Digest(Lower(alg), fs[file_path].content)]

\* calculate_file_hash(file_path, algorithm); ioFail: the files whose read fails
CalculateFileHash(file_path, alg, ioFail) ==
    IF ~Exists(file_path)
    THEN [NoHash EXCEPT !.err = "FileNotFoundError"]
    ELSE IF Lower(alg) \notin AlgorithmsAvailable
    THEN [NoHash EXCEPT !.err = "ValueError"]
    ELSE IF file_path \in ioFail \/ file_path \notin AllFiles
    THEN [NoHash EXCEPT !.err = "OSError"]
    ELSE [ok |-> TRUE, err |-> "none",
          value |-> Digest(Lower(alg), fs[file_path].content)]

NoMeta == [present |-> FALSE, file_size |-> 0, modification_time |-> 0,
           creation_time |-> 0, permissions |-> 0]

\* _get_file_metadata(file_path); statFail: the files os.stat fails on
GetFileMetadata(file_path, statFail) ==
    IF ~fs[file_path].present \/ file_path \in statFail
    THEN NoMeta
    ELSE [present |-> TRUE,
          file_size |-> fs[file_path].size,
          modification_time |-> fs[file_path].mtime,
          creation_time |-> fs[file_path].ctime,
          permissions |-> fs[file_path].mode % (PermMask + 1)]

----------------------------------------------------------------------------
(* PathMatcher *)

\* a matcher that lets an include entry win over the exclude entries
IsPathMonitoredIncludeFirst(file_path) ==
    \/ \E i \in 1..Len(monitored_paths.include) :
            StartsWith(file_path, AbsPath(monitored_paths.include[i]))
    \/ ~ \E i \in 1..Len(monitored_paths.exclude) :
            StartsWith(file_path, AbsPath(monitored_paths.exclude[i]))

\* a matcher whose prefix test stops at a path separator
IsPathMonitoredAtBoundary(file_path) ==
    LET Below(entry) ==
            /\ StartsWith(file_path, entry)
            /\ \/ Len(file_path) = Len(entry)
               \/ file_path[Len(entry) + 1] = "/"
    IN  IF \E i \in 1..Len(monitored_paths.exclude) :
                Below(AbsPath(monitored_paths.exclude[i]))
        THEN FALSE
        ELSE \E i \in 1..Len(monitored_paths.include) :
                Below(AbsPath(monitored_paths.include[i]))

\* _is_path_monitored(file_path)
IsPathMonitored(file_path) ==
    IF \E i \in 1..Len(monitored_paths.exclude) :
            StartsWith(file_path, AbsPath(monitored_paths.exclude[i]))
    THEN FALSE
    ELSE \E i \in 1..Len(monitored_paths.include) :
            StartsWith(file_path, AbsPath(monitored_paths.include[i]))

\* the files one include entry contributes to a scan, in listing order
ScanRoot(include_path) ==
    LET abs_include_path == AbsPath(include_path)
    IN  IF ~Exists(abs_include_path) THEN <<>>
        ELSE ListOf({f \in Walk(abs_include_path) : IsPathMonitored(f)})

\* the files a scan visits, root after root (a file under two roots twice)
RECURSIVE ScanFrom(_)
ScanFrom(i) ==
    IF i > Len(monitored_paths.include) THEN <<>>
    ELSE ScanRoot(monitored_paths.include[i]) \o ScanFrom(i + 1)

ScanList == ScanFrom(1)

----------------------------------------------------------------------------
(* BaselineStore *)

\* get_all_baseline_paths() on table d
GetAllBaselinePaths(d) == {r.file_path : r \in d}

\* get_baseline_entry(file_path) on table d: fetchone(), or None
GetBaselineEntry(d, file_path) ==
    IF \E r \in d : r.file_path = file_path
    THEN CHOOSE r \in d : r.file_path = file_path
    ELSE NoEntry

Row(file_path, file_hash, file_size, modification_time, creation_time, permissions, baseline_timestamp) ==
    [file_path |-> file_path, file_hash |-> file_hash,
     file_size |-> file_size, modification_time |-> modification_time,
     creation_time |-> creation_time, permissions |-> permissions,
     baseline_timestamp |-> baseline_timestamp]

\* a plain INSERT into a table without the primary key
SaveBaselineEntryInsert(d, file_path, file_hash, file_size, modification_time, creation_time, permissions, t, fail) ==
    IF fail THEN d
    ELSE d \cup {Row(file_path, file_hash, file_size, modification_time,
                     creation_time, permissions, t)}

\* save_baseline_entry: INSERT OR REPLACE on the primary key file_path, at
\* time t; a storage error is logged and the table is left as it was
SaveBaselineEntry(d, file_path, file_hash, file_size, modification_time, creation_time, permissions, t, fail) ==
    IF fail THEN d
    ELSE {r \in d : r.file_path # file_path}
         \cup {Row(file_path, file_hash, file_size, modification_time,
                   creation_time, permissions, t)}

\* remove_baseline_entry: DELETE; a storage error is logged
RemoveBaselineEntry(d, file_path, fail) ==
    IF fail THEN d ELSE {r \in d : r.file_path # file_path}

----------------------------------------------------------------------------
(* create_baseline *)

\* a scan that stores a file whenever its metadata was obtained
BaselineOneNoHashCheck(d, file_path, ioFail, statFail, putFail) ==
    LET file_hash == CalculateFileHash(file_path, algorithm, ioFail)
        metadata == GetFileMetadata(file_path, statFail)
    IN  IF metadata.present
        THEN SaveBaselineEntry(d, file_path, file_hash.value,
                               metadata.file_size, metadata.modification_time,
                               metadata.creation_time, metadata.permissions,
                               now, file_path \in putFail)
        ELSE d

\* one visited file: hash, metadata, and the put when both were obtained
BaselineOne(d, file_path, ioFail, statFail, putFail) ==
    LET file_hash == CalculateFileHash(file_path, algorithm, ioFail)
        metadata == GetFileMetadata(file_path, statFail)
    IN  IF file_hash.ok /\ metadata.present
        THEN SaveBaselineEntry(d, file_path, file_hash.value,
                               metadata.file_size, metadata.modification_time,
                               metadata.creation_time, metadata.permissions,
                               now, file_path \in putFail)
        ELSE d

\* the table after the visits files[i..] of a scan
RECURSIVE BaselineFrom(_, _, _, _, _, _)
BaselineFrom(d, files, i, ioFail, statFail, putFail) ==
    IF i > Len(files) THEN d
    ELSE BaselineFrom(BaselineOne(d, files[i], ioFail, statFail, putFail),
                      files, i + 1, ioFail, statFail, putFail)

\* the record of a step: the operation, how it ended ("ok": it returned,
\* "raised": an exception left it), whether sqlite3 raised an error inside
\* it, the failures injected, for a store call its path, the row it was
\* given and the row the path had before, for a call of the matcher or the
\* fingerprinter its arguments and what it returned or raised, for a
\* command whether the database file existed and the exit status
NoCall == [op |-> "none", outcome |-> "ok", dbError |-> FALSE,
           ioFail |-> {}, statFail |-> {}, putFail |-> {}, path |-> <<>>,
           pre |-> {}, row |-> NoEntry, prev |-> NoEntry,
           monitored |-> FALSE, alg |-> <<>>, hash |-> NoHash,
           database |-> TRUE, exit |-> 0]

NoChanges == [added |-> <<>>, modified |-> <<>>, deleted |-> <<>>]

NoChk == [baseline_paths |-> {}, current_paths |-> {}, changes |-> NoChanges]

\* a step other than check_integrity's return: no report is at hand, and
\* outside a check its locals are gone
NoReport ==
    /\ changes' = NoChanges
    /\ hashed' = {}
    /\ got' = NoEntry
    /\ chk' = IF pc = "compare" THEN chk ELSE NoChk

\* the files of a scan whose hash and metadata create_baseline obtains
Processed(ioFail, statFail) ==
    {f \in Range(ScanList) :
        /\ CalculateFileHash(f, algorithm, ioFail).ok
        /\ GetFileMetadata(f, statFail).present}

\* create_baseline(): returns normally whatever happened to the puts
CreateBaseline ==
    /\ pc = "idle"
    /\ now < MaxClock
    /\ \E files \in {ScanList} :
       \E faults \in FaultSets(Range(files)) :
       \E ioFail \in {Failing(faults, "io")},
          statFail \in {Failing(faults, "stat")} :
       \E putFail \in {Failing(faults, "put") \cap Processed(ioFail, statFail)} :
          /\ Failing(faults, "get") = {}
          /\ db' = BaselineFrom(db, files, 1, ioFail, statFail, putFail)
          /\ call' = [NoCall EXCEPT !.op = "create_baseline",
                         !.outcome = "ok",
                         !.dbError = (putFail # {}),
                         !.ioFail = ioFail, !.statFail = statFail,
                         !.putFail = putFail,
                         !.pre = GetAllBaselinePaths(db)]
          /\ clean' = /\ db = {}
                       /\ GetAllBaselinePaths(db') = Range(files)
    /\ now' = now + 1
    /\ NoReport
    /\ UNCHANGED <<db_exists, monitored_paths, algorithm, fs, pc>>

----------------------------------------------------------------------------
(* check_integrity *)

OctDigit(k) == <<"0", "1", "2", "3", "4", "5", "6", "7">>[k + 1]

RECURSIVE OctDigits(_)
OctDigits(n) ==
    IF n < 8 THEN <<OctDigit(n)>>
    ELSE OctDigits(n \div 8) \o <<OctDigit(n % 8)>>

\* oct(n)
Oct(n) == <<"0", "o">> \o OctDigits(n)

\* the set of all currently monitored paths
CurrentPaths == Range(ScanList)

\* every walked file listed as added
AddedFilesAll(current_paths, baseline_paths) == current_paths

\* the difference taken the wrong way round
DeletedFilesSwapped(current_paths, baseline_paths) ==
    current_paths \ baseline_paths

\* every path of the store listed as deleted
DeletedFilesAll(current_paths, baseline_paths) == baseline_paths

\* added_files and deleted_files
AddedFiles(current_paths, baseline_paths) == current_paths \ baseline_paths

DeletedFiles(current_paths, baseline_paths) == baseline_paths \ current_paths

Added(file_path, reason) == [file |-> file_path, reason |-> reason]

\* an entry of changes['modified']; old and new stand for old_size/new_size,
\* old_mtime/new_mtime, old_perms/new_perms, old_hash/new_hash
Modified(file_path, type, old, new) ==
    [file |-> file_path, type |-> type, old |-> old, new |-> new]

RECURSIVE AddedList(_, _)
AddedList(files, i) ==
    IF i > Len(files) THEN <<>>
    ELSE <<Added(files[i], "New file not in baseline")>>
         \o AddedList(files, i + 1)

RECURSIVE DeletedList(_, _)
DeletedList(files, i) ==
    IF i > Len(files) THEN <<>>
    ELSE <<Added(files[i], "File deleted from monitored path")>>
         \o DeletedList(files, i + 1)

\* a comparison that looks at the modification time before the size
CompareEntryMtimeFirst(file_path, current_metadata, baseline_entry, ioFail) ==
    IF current_metadata.modification_time # baseline_entry.modification_time
    THEN [modified |-> <<Modified(file_path, "mtime_mismatch",
                                  baseline_entry.modification_time,
                                  current_metadata.modification_time)>>,
          hashed |-> FALSE]
    ELSE IF current_metadata.file_size # baseline_entry.file_size
    THEN [modified |-> <<Modified(file_path, "size_mismatch",
                                  baseline_entry.file_size,
                                  current_metadata.file_size)>>,
          hashed |-> FALSE]
    ELSE IF current_metadata.permissions # baseline_entry.permissions
    THEN [modified |-> <<Modified(file_path, "permissions_mismatch",
                                  Oct(baseline_entry.permissions),
                                  Oct(current_metadata.permissions))>>,
          hashed |-> FALSE]
    ELSE LET current_hash == CalculateFileHash(file_path, algorithm, ioFail)
         IN  IF current_hash.ok /\ current_hash.value # baseline_entry.file_hash
             THEN [modified |-> <<Modified(file_path, "hash_mismatch",
                                           baseline_entry.file_hash,
                                           current_hash.value)>>,
                   hashed |-> TRUE]
             ELSE [modified |-> <<>>, hashed |-> TRUE]

\* a comparison that computes the hash before it looks at the metadata
CompareEntryHashFirst(file_path, current_metadata, baseline_entry, ioFail) ==
    LET current_hash == CalculateFileHash(file_path, algorithm, ioFail)
    IN  IF current_metadata.file_size # baseline_entry.file_size
        THEN [modified |-> <<Modified(file_path, "size_mismatch",
                                      baseline_entry.file_size,
                                      current_metadata.file_size)>>,
              hashed |-> TRUE]
        ELSE IF current_metadata.modification_time
                    # baseline_entry.modification_time
        THEN [modified |-> <<Modified(file_path, "mtime_mismatch",
                                      baseline_entry.modification_time,
                                      current_metadata.modification_time)>>,
              hashed |-> TRUE]
        ELSE IF current_metadata.permissions # baseline_entry.permissions
        THEN [modified |-> <<Modified(file_path, "permissions_mismatch",
                                      Oct(baseline_entry.permissions),
                                      Oct(current_metadata.permissions))>>,
              hashed |-> TRUE]
        ELSE IF current_hash.ok /\ current_hash.value # baseline_entry.file_hash
        THEN [modified |-> <<Modified(file_path, "hash_mismatch",
                                      baseline_entry.file_hash,
                                      current_hash.value)>>,
              hashed |-> TRUE]
        ELSE [modified |-> <<>>, hashed |-> TRUE]

\* a comparison that reads the modification time from the wrong column
CompareEntryWrongColumn(file_path, current_metadata, baseline_entry, ioFail) ==
    IF current_metadata.modification_time # baseline_entry.baseline_timestamp
    THEN [modified |-> <<Modified(file_path, "mtime_mismatch",
                                  baseline_entry.baseline_timestamp,
                                  current_metadata.modification_time)>>,
          hashed |-> FALSE]
    ELSE [modified |-> <<>>, hashed |-> FALSE]

\* the comparison of one file with its baseline entry: what it appends to
\* changes['modified'], and whether it hashed the file
CompareEntry(file_path, current_metadata, baseline_entry, ioFail) ==
    IF current_metadata.file_size # baseline_entry.file_size
    THEN [modified |-> <<Modified(file_path, "size_mismatch",
                                  baseline_entry.file_size,
                                  current_metadata.file_size)>>,
          hashed |-> FALSE]
    ELSE IF current_metadata.modification_time
                # baseline_entry.modification_time
    THEN [modified |-> <<Modified(file_path, "mtime_mismatch",
                                  baseline_entry.modification_time,
                                  current_metadata.modification_time)>>,
          hashed |-> FALSE]
    ELSE IF current_metadata.permissions # baseline_entry.permissions
    THEN [modified |-> <<Modified(file_path, "permissions_mismatch",
                                  Oct(baseline_entry.permissions),
                                  Oct(current_metadata.permissions))>>,
          hashed |-> FALSE]
    ELSE LET current_hash == CalculateFileHash(file_path, algorithm, ioFail)
         IN  IF current_hash.ok /\ current_hash.value # baseline_entry.file_hash
             THEN [modified |-> <<Modified(file_path, "hash_mismatch",
                                           baseline_entry.file_hash,
                                           current_hash.value)>>,
                   hashed |-> TRUE]
             ELSE [modified |-> <<>>, hashed |-> TRUE]

\* a loop that gives up the whole check when a file's metadata is missing
CompareOneAbortOnStat(acc, file_path, ioFail, statFail, getFail) ==
    LET current_metadata == GetFileMetadata(file_path, statFail)
        baseline_entry == GetBaselineEntry(db, file_path)
    IN  IF acc.raised THEN acc
        ELSE IF ~current_metadata.present \/ file_path \in getFail
        THEN [acc EXCEPT !.raised = TRUE]
        ELSE IF baseline_entry = NoEntry
        THEN [acc EXCEPT !.changes.added =
                 Append(@, Added(file_path, "File exists but is not in baseline"))]
        ELSE LET c == CompareEntry(file_path, current_metadata,
                                   baseline_entry, ioFail)
             IN  [acc EXCEPT !.changes.modified = @ \o c.modified,
                             !.hashed = IF c.hashed THEN @ \cup {file_path}
                                        ELSE @]

\* a loop that lists a file without metadata as deleted
CompareOneReportMissing(acc, file_path, ioFail, statFail, getFail) ==
    LET current_metadata == GetFileMetadata(file_path, statFail)
        baseline_entry == GetBaselineEntry(db, file_path)
    IN  IF acc.raised THEN acc
        ELSE IF ~current_metadata.present
        THEN [acc EXCEPT !.changes.deleted =
                 Append(@, Added(file_path, "File deleted from monitored path"))]
        ELSE IF file_path \in getFail THEN [acc EXCEPT !.raised = TRUE]
        ELSE IF baseline_entry = NoEntry
        THEN [acc EXCEPT !.changes.added =
                 Append(@, Added(file_path, "File exists but is not in baseline"))]
        ELSE LET c == CompareEntry(file_path, current_metadata,
                                   baseline_entry, ioFail)
             IN  [acc EXCEPT !.changes.modified = @ \o c.modified,
                             !.hashed = IF c.hashed THEN @ \cup {file_path}
                                        ELSE @]

\* one turn of the loop over baseline_paths.intersection(current_paths);
\* acc: the changes so far, the files hashed, whether the store raised
CompareOne(acc, file_path, ioFail, statFail, getFail) ==
    LET current_metadata == GetFileMetadata(file_path, statFail)
        baseline_entry == GetBaselineEntry(db, file_path)
    IN  IF acc.raised \/ ~current_metadata.present THEN acc
        ELSE IF file_path \in getFail THEN [acc EXCEPT !.raised = TRUE]
        ELSE IF baseline_entry = NoEntry
        THEN [acc EXCEPT !.changes.added =
                 Append(@, Added(file_path, "File exists but is not in baseline"))]
        ELSE LET c == CompareEntry(file_path, current_metadata,
                                   baseline_entry, ioFail)
             IN  [acc EXCEPT !.changes.modified = @ \o c.modified,
                             !.hashed = IF c.hashed THEN @ \cup {file_path}
                                        ELSE @]

RECURSIVE CompareFrom(_, _, _, _, _, _)
CompareFrom(acc, files, i, ioFail, statFail, getFail) ==
    IF i > Len(files) THEN acc
    ELSE CompareFrom(CompareOne(acc, files[i], ioFail, statFail, getFail),
                     files, i + 1, ioFail, statFail, getFail)

\* a check that drops the rows of the files it reports as deleted
CheckIntegrityStorePrunes(d, current_paths) ==
    {r \in d : r.file_path \in current_paths}

\* the table after check_integrity(): it issues SELECT statements only
\* (get_all_baseline_paths, get_baseline_entry) and commits nothing
CheckIntegrityStore(d, current_paths) == d

\* check_integrity() up to the loop over the intersection: the baseline
\* paths are read, the roots walked, added and deleted files listed
CheckWalk ==
    /\ pc = "idle"
    /\ \E fail \in BOOLEAN :
          IF fail
          THEN /\ call' = [NoCall EXCEPT !.op = "check_integrity",
                              !.outcome = "raised", !.dbError = TRUE]
               /\ changes' = NoChanges
               /\ hashed' = {}
               /\ chk' = NoChk
               /\ pc' = pc
          ELSE \E baseline_paths \in {GetAllBaselinePaths(db)},
                  current_paths \in {CurrentPaths} :
                   /\ chk' = [baseline_paths |-> baseline_paths,
                              current_paths |-> current_paths,
                              changes |->
                                [added |-> AddedList(
                                     ListOf(AddedFiles(current_paths,
                                                       baseline_paths)), 1),
                                 modified |-> <<>>,
                                 deleted |-> DeletedList(
                                     ListOf(DeletedFiles(current_paths,
                                                         baseline_paths)), 1)]]
                   /\ pc' = "compare"
                   /\ call' = [NoCall EXCEPT !.op = "check_walk"]
                   /\ changes' = NoChanges
                   /\ hashed' = {}
    /\ got' = NoEntry
    /\ UNCHANGED <<db_exists, monitored_paths, algorithm, fs, db, now, clean>>

\* the loop over the intersection, and the return
CheckCompare ==
    /\ pc = "compare"
    /\ LET both == chk.baseline_paths \cap chk.current_paths
       IN  \E faults \in FaultSets(both) :
              LET ioFail == Failing(faults, "io")
                  statFail == Failing(faults, "stat")
                  getFail == Failing(faults, "get")
                  \* the fetches that are made: of the files os.stat succeeds on
                  fetched == {f \in both : GetFileMetadata(f, statFail).present}
              IN  \E r \in {CompareFrom([changes |-> chk.changes,
                                          hashed |-> {}, raised |-> FALSE],
                                         ListOf(both), 1, ioFail, statFail,
                                         getFail)} :
                  /\ Failing(faults, "put") = {}
                  /\ call' = [NoCall EXCEPT !.op = "check_integrity",
                                 !.outcome = IF r.raised THEN "raised" ELSE "ok",
                                 !.dbError = (getFail \cap fetched # {}),
                                 !.ioFail = ioFail, !.statFail = statFail]
                  /\ changes' = IF r.raised THEN NoChanges ELSE r.changes
                  /\ hashed' = r.hashed
    /\ db' = CheckIntegrityStore(db, chk.current_paths)
    /\ pc' = "idle"
    /\ got' = NoEntry
    /\ UNCHANGED <<db_exists, monitored_paths, algorithm, fs, now, chk, clean>>

----------------------------------------------------------------------------
(* The store's interface, called directly *)

\* the arguments save_baseline_entry is called with: hash, size,
\* modification time, creation time, permissions
PutArgs ==
    { <<Digest(Lower(AlgSHA256), "hello"), 1, 0, 0, Mode644 % (PermMask + 1)>>,
      <<Digest(Lower(AlgSHA256), "world"), 2, 1, 1, Mode600 % (PermMask + 1)>>,
      <<Digest(Lower(AlgSHA256), "world"), 1, 0, 1, Mode644 % (PermMask + 1)>> }

\* save_baseline_entry(...): returns normally also on a storage error
Put(file_path) ==
    /\ pc = "idle"
    /\ now < MaxClock
    /\ now' = now + 1
    /\ \E a \in PutArgs, fail \in BOOLEAN :
       LET file_hash == a[1]
           file_size == a[2]
           modification_time == a[3]
           creation_time == a[4]
           permissions == a[5]
       IN
          /\ db' = SaveBaselineEntry(db, file_path, file_hash, file_size,
                                     modification_time, creation_time,
                                     permissions, now, fail)
          /\ call' = [NoCall EXCEPT !.op = "save_baseline_entry",
                         !.path = file_path, !.dbError = fail,
                         !.outcome = "ok",
                         !.pre = GetAllBaselinePaths(db),
                         !.row = Row(file_path, file_hash, file_size,
                                     modification_time, creation_time,
                                     permissions, now),
                         !.prev = GetBaselineEntry(db, file_path)]
    /\ clean' = FALSE
    /\ NoReport
    /\ UNCHANGED <<db_exists, monitored_paths, algorithm, fs, pc>>

\* get_baseline_entry(file_path): a storage error is logged and raised again
Get(file_path) ==
    /\ pc = "idle"
    /\ \E fail \in BOOLEAN :
          /\ got' = IF fail THEN NoEntry ELSE GetBaselineEntry(db, file_path)
          /\ call' = [NoCall EXCEPT !.op = "get_baseline_entry",
                         !.path = file_path, !.dbError = fail,
                         !.outcome = IF fail THEN "raised" ELSE "ok"]
    /\ changes' = NoChanges
    /\ hashed' = {}
    /\ chk' = NoChk
    /\ UNCHANGED <<db_exists, monitored_paths, algorithm, fs, db, now, pc, clean>>

\* remove_baseline_entry(file_path), by this process or by another one that
\* has the database file open: returns normally also on a storage error
Remove(file_path) ==
    /\ now < MaxClock
    /\ now' = now + 1
    /\ \E fail \in BOOLEAN :
          /\ db' = RemoveBaselineEntry(db, file_path, fail)
          /\ call' = [NoCall EXCEPT !.op = "remove_baseline_entry",
                         !.path = file_path, !.dbError = fail,
                         !.outcome = "ok",
                         !.pre = GetAllBaselinePaths(db),
                         !.prev = GetBaselineEntry(db, file_path)]
    /\ clean' = FALSE
    /\ NoReport
    /\ UNCHANGED <<db_exists, monitored_paths, algorithm, fs, pc>>

----------------------------------------------------------------------------
(* The environment: other processes changing the monitored tree *)

EnvCall == [NoCall EXCEPT !.op = "env"]

\* a change to file f leaves the tree unchanged as far as it is monitored
\* only when a scan does not visit f
Touched(f) == clean' = (clean /\ f \notin CurrentPaths /\ f \notin CurrentPaths')

CreateFile(f) ==
    /\ ~fs[f].present
    /\ now < MaxClock
    /\ \E c \in Contents :
          fs' = [fs EXCEPT ![f] = [present |-> TRUE, size |-> 1, mtime |-> now,
                                   ctime |-> now, mode |-> Mode644,
                                   content |-> c]]
    /\ now' = now + 1
    /\ call' = EnvCall
    /\ NoReport
    /\ UNCHANGED <<db_exists, monitored_paths, algorithm, db, pc>>
    /\ Touched(f)

DeleteFile(f) ==
    /\ fs[f].present
    /\ now < MaxClock
    /\ fs' = [fs EXCEPT ![f] = NoFile]
    /\ now' = now + 1
    /\ call' = EnvCall
    /\ NoReport
    /\ UNCHANGED <<db_exists, monitored_paths, algorithm, db, pc>>
    /\ Touched(f)

\* open(f, 'a').write(...): more bytes, new content, new timestamps
AppendFile(f) ==
    /\ fs[f].present
    /\ fs[f].size < MaxSize
    /\ now < MaxClock
    /\ \E c \in Contents :
          fs' = [fs EXCEPT ![f].size = @ + 1, ![f].content = c,
                           ![f].mtime = now, ![f].ctime = now]
    /\ now' = now + 1
    /\ call' = EnvCall
    /\ NoReport
    /\ UNCHANGED <<db_exists, monitored_paths, algorithm, db, pc>>
    /\ Touched(f)

\* the same number of other bytes, written at a later time
OverwriteFile(f) ==
    /\ fs[f].present
    /\ now < MaxClock
    /\ \E c \in Contents \ {fs[f].content} :
          fs' = [fs EXCEPT ![f].content = c, ![f].mtime = now,
                           ![f].ctime = now]
    /\ now' = now + 1
    /\ call' = EnvCall
    /\ NoReport
    /\ UNCHANGED <<db_exists, monitored_paths, algorithm, db, pc>>
    /\ Touched(f)

\* the same number of other bytes, with the timestamps put back (os.utime)
\* or written within the granularity of the last write's timestamp
TamperFile(f) ==
    /\ fs[f].present
    /\ now < MaxClock
    /\ \E c \in Contents \ {fs[f].content} :
          fs' = [fs EXCEPT ![f].content = c]
    /\ now' = now + 1
    /\ call' = EnvCall
    /\ NoReport
    /\ UNCHANGED <<db_exists, monitored_paths, algorithm, db, pc>>
    /\ Touched(f)

Chmod(f) ==
    /\ fs[f].present
    /\ now < MaxClock
    /\ fs' = [fs EXCEPT ![f].mode = IF @ = Mode644 THEN Mode600 ELSE Mode644,
                        ![f].ctime = now]
    /\ now' = now + 1
    /\ call' = EnvCall
    /\ NoReport
    /\ UNCHANGED <<db_exists, monitored_paths, algorithm, db, pc>>
    /\ Touched(f)

Env ==
    \E f \in AllFiles :
        \/ CreateFile(f)
        \/ DeleteFile(f)
        \/ AppendFile(f)
        \/ OverwriteFile(f)
        \/ TamperFile(f)
        \/ Chmod(f)

----------------------------------------------------------------------------

Init ==
    /\ monitored_paths \in Configs
    /\ algorithm \in Algorithms
    /\ fs = [f \in AllFiles |->
                [present |-> TRUE, size |-> 1, mtime |-> 0, ctime |-> 0,
                 mode |-> Mode644, content |-> "hello"]]
    /\ db = {}
    /\ now = 1
    /\ pc = "idle"
    /\ chk = NoChk
    /\ call = NoCall
    /\ changes = NoChanges
    /\ hashed = {}
    /\ got = NoEntry
    /\ clean = FALSE
    /\ db_exists = TRUE

\* the monitor at work while the tree changes under it
Next ==
    \/ CreateBaseline
    \/ CheckWalk
    \/ CheckCompare
    \/ \E f \in AllFiles : Remove(f)
    \/ Env

Spec == Init /\ [][Next]_vars

\* the store alone, driven through its interface
NextStore ==
    \/ \E f \in AllFiles : Put(f)
    \/ \E f \in AllFiles : Get(f)
    \/ \E f \in AllFiles : Remove(f)

SpecStore == Init /\ [][NextStore]_vars

----------------------------------------------------------------------------
(* The matcher and the fingerprinter, called directly *)

\* the paths the matcher is asked about: the two files, a sibling of /d
\* whose name starts with "d", a file outside every root, the directory /d/x
PathD2X == <<"/", "d", "2", "/", "x">>
PathEA == <<"/", "e", "/", "a">>
ProbePaths == AllFiles \cup {PathD2X, PathEA, <<"/", "d", "/", "x">>}

\* further contents of fim_config.yaml: no entries at all, an exclude
\* entry without a trailing separator, an exclude entry that covers the
\* include entry, relative entries, an include entry alone
Config4 == [include |-> <<>>, exclude |-> <<>>]
Config5 == [include |-> << <<"/", "d">> >>,
            exclude |-> << <<"/", "d", "/", "x">> >>]
Config6 == [include |-> << <<"/", "d", "/", "x">> >>,
            exclude |-> << <<"/", "d">> >>]
Config7 == [include |-> << <<"d">> >>, exclude |-> << <<"d", "2">> >>]
Config8 == [include |-> << <<"/", "d">> >>, exclude |-> <<>>]
Config9 == [include |-> <<>>, exclude |-> << <<"/", "d">> >>]

MatcherConfigs == Configs \cup {Config4, Config5, Config6, Config7, Config8,
                                Config9}

\* a monitor constructed over another configuration file
LoadFimConfig ==
    /\ pc = "idle"
    /\ monitored_paths' \in MatcherConfigs \ {monitored_paths}
    /\ call' = [NoCall EXCEPT !.op = "_load_fim_config"]
    /\ clean' = FALSE
    /\ NoReport
    /\ UNCHANGED <<db_exists, algorithm, fs, db, now, pc>>

\* _is_path_monitored(file_path)
IsMonitored(file_path) ==
    /\ pc = "idle"
    /\ call' = [NoCall EXCEPT !.op = "_is_path_monitored",
                   !.path = file_path,
                   !.monitored = IsPathMonitored(file_path)]
    /\ NoReport
    /\ UNCHANGED <<db_exists, monitored_paths, algorithm, fs, db, now, pc, clean>>

\* the paths the fingerprinter is given: the two files, the directory /d,
\* a path that does not exist
HashPaths == AllFiles \cup {<<"/", "d">>, PathEA}

\* the algorithm names it is given
AlgMD5 == <<"m", "d", "5">>
HashAlgorithms == Algorithms \cup {AlgMD5, Lower(AlgSHA256)}

\* calculate_file_hash(file_path, alg): returns the digest or raises
Hash(file_path, alg) ==
    /\ pc = "idle"
    /\ \E fail \in BOOLEAN :
       LET ioFail == IF fail THEN {file_path} ELSE {}
           h == CalculateFileHash(file_path, alg, ioFail)
       IN  call' = [NoCall EXCEPT !.op = "calculate_file_hash",
                       !.path = file_path, !.alg = alg, !.ioFail = ioFail,
                       !.hash = h,
                       !.outcome = IF h.ok THEN "ok" ELSE "raised"]
    /\ NoReport
    /\ UNCHANGED <<db_exists, monitored_paths, algorithm, fs, db, now, pc, clean>>

NextUnits ==
    \/ LoadFimConfig
    \/ \E p \in ProbePaths : IsMonitored(p)
    \/ \E p \in HashPaths, alg \in HashAlgorithms : Hash(p, alg)
    \/ \E f \in AllFiles : DeleteFile(f)
    \/ \E f \in AllFiles : CreateFile(f)
    \/ \E f \in AllFiles : TamperFile(f)

SpecUnits == Init /\ [][NextUnits]_vars

----------------------------------------------------------------------------
(* The command line: fim init, fim check, fim status *)

\* fim status on a database file that is missing, or that exists and whose
\* rows can or cannot be read
StatusExit(database, raised) ==
    IF ~database THEN 0 ELSE IF raised THEN 1 ELSE 0

\* a check command that treats a missing database as status does
CheckExitLikeStatus(database, raised) == StatusExit(database, raised)

\* fim check: sys.exit(1) without a database file and in the except branch
CheckExit(database, raised) ==
    IF ~database THEN 1 ELSE IF raised THEN 1 ELSE 0

\* fim init: the except branch around create_baseline; click's Abort when
\* the question whether to overwrite is answered with no
InitExit(aborted, raised) ==
    IF aborted \/ raised THEN 1 ELSE 0

\* fim init; overwrite: --force was given or the question answered with yes
CliInit ==
    /\ pc = "idle"
    /\ now < MaxClock
    /\ now' = now + 1
    /\ \E overwrite \in (IF db_exists THEN BOOLEAN ELSE {TRUE}) :
          IF db_exists /\ ~overwrite
          THEN /\ call' = [NoCall EXCEPT !.op = "init", !.outcome = "aborted",
                              !.database = db_exists,
                              !.pre = GetAllBaselinePaths(db),
                              !.exit = InitExit(TRUE, FALSE)]
               /\ UNCHANGED <<db, db_exists, clean>>
          ELSE \E files \in {ScanList} :
               \E faults \in FaultSets(Range(files)) :
               \E ioFail \in {Failing(faults, "io")},
                  statFail \in {Failing(faults, "stat")} :
               \E putFail \in {Failing(faults, "put")
                                  \cap Processed(ioFail, statFail)} :
                  /\ Failing(faults, "get") = {}
                  /\ db' = BaselineFrom({}, files, 1, ioFail, statFail,
                                        putFail)
                  /\ db_exists' = TRUE
                  /\ call' = [NoCall EXCEPT !.op = "init", !.outcome = "ok",
                                 !.database = db_exists,
                                 !.dbError = (putFail # {}),
                                 !.ioFail = ioFail, !.statFail = statFail,
                                 !.putFail = putFail,
                                 !.exit = InitExit(FALSE, FALSE)]
                  /\ clean' = (GetAllBaselinePaths(db') = Range(files))
    /\ NoReport
    /\ UNCHANGED <<monitored_paths, algorithm, fs, pc>>

\* fim check: check_integrity() from its first line to its return
CliCheck ==
    /\ pc = "idle"
    /\ IF ~db_exists
       THEN /\ call' = [NoCall EXCEPT !.op = "check", !.database = FALSE,
                           !.exit = CheckExit(FALSE, FALSE)]
            /\ changes' = NoChanges
            /\ hashed' = {}
            /\ db' = db
       ELSE \E fail \in BOOLEAN,
               baseline_paths \in {GetAllBaselinePaths(db)},
               current_paths \in {CurrentPaths} :
            LET both == baseline_paths \cap current_paths
                first == [added |-> AddedList(
                              ListOf(AddedFiles(current_paths,
                                                baseline_paths)), 1),
                          modified |-> <<>>,
                          deleted |-> DeletedList(
                              ListOf(DeletedFiles(current_paths,
                                                  baseline_paths)), 1)]
            IN  \E faults \in (IF fail THEN {{}} ELSE FaultSets(both)),
                   start \in {[changes |-> first, hashed |-> {},
                               raised |-> FALSE]} :
                LET ioFail == Failing(faults, "io")
                    statFail == Failing(faults, "stat")
                    getFail == Failing(faults, "get")
                IN  \E r \in {CompareFrom(start, ListOf(both), 1, ioFail,
                                          statFail, getFail)} :
                    LET raised == fail \/ r.raised
                    IN  /\ Failing(faults, "put") = {}
                        /\ call' = [NoCall EXCEPT !.op = "check",
                                       !.database = TRUE,
                                       !.outcome = IF raised THEN "raised"
                                                   ELSE "ok",
                                       !.dbError = raised,
                                       !.ioFail = ioFail,
                                       !.statFail = statFail,
                                       !.exit = CheckExit(TRUE, raised)]
                        /\ changes' = IF raised THEN NoChanges ELSE r.changes
                        /\ hashed' = IF fail THEN {} ELSE r.hashed
                        /\ db' = CheckIntegrityStore(db, current_paths)
    /\ got' = NoEntry
    /\ chk' = NoChk
    /\ UNCHANGED <<db_exists, monitored_paths, algorithm, fs, now, pc, clean>>

\* fim status: get_all_baseline_paths() outside any try
CliStatus ==
    /\ pc = "idle"
    /\ IF ~db_exists
       THEN call' = [NoCall EXCEPT !.op = "status", !.database = FALSE,
                        !.exit = StatusExit(FALSE, FALSE)]
       ELSE \E fail \in BOOLEAN :
               call' = [NoCall EXCEPT !.op = "status", !.database = TRUE,
                           !.dbError = fail,
                           !.outcome = IF fail THEN "raised" ELSE "ok",
                           !.pre = GetAllBaselinePaths(db),
                           !.exit = StatusExit(TRUE, fail)]
    /\ changes' = NoChanges
    /\ hashed' = {}
    /\ got' = NoEntry
    /\ chk' = NoChk
    /\ UNCHANGED <<db_exists, monitored_paths, algorithm, fs, db, now, pc,
                   clean>>

\* before the first fim init: no database file
InitCli ==
    /\ monitored_paths \in Configs
    /\ algorithm \in Algorithms
    /\ fs = [f \in AllFiles |->
                [present |-> TRUE, size |-> 1, mtime |-> 0, ctime |-> 0,
                 mode |-> Mode644, content |-> "hello"]]
    /\ db = {}
    /\ now = 1
    /\ pc = "idle"
    /\ chk = NoChk
    /\ call = NoCall
    /\ changes = NoChanges
    /\ hashed = {}
    /\ got = NoEntry
    /\ clean = FALSE
    /\ db_exists = FALSE

\* between two commands files are deleted, appended to and rewritten
NextCli ==
    \/ CliInit
    \/ CliCheck
    \/ CliStatus
    \/ \E f \in AllFiles : DeleteFile(f)
    \/ \E f \in AllFiles : AppendFile(f)
    \/ \E f \in AllFiles : TamperFile(f)

SpecCli == InitCli /\ [][NextCli]_vars

\* the exit status the command line gives an operation (cli.py: sys.exit(1)
\* in the except branch around create_baseline and check_integrity)
ExitCode(c) == IF c.outcome = "raised" THEN 1 ELSE 0

----------------------------------------------------------------------------
(* What the claims speak of *)

\* f lies below an include root that exists
UnderIncludeRoot(f) ==
    \E i \in 1..Len(monitored_paths.include) :
        /\ Exists(AbsPath(monitored_paths.include[i]))
        /\ IsUnder(f, AbsPath(monitored_paths.include[i]))

\* the set F: the files a walk of the include roots finds and the matcher
\* accepts
MonitoredFiles ==
    {f \in AllFiles : fs[f].present /\ UnderIncludeRoot(f) /\ IsPathMonitored(f)}

\* f starts with an entry of the list, as written or resolved by abspath
StartsWithEntry(f, list) ==
    \E i \in 1..Len(list) :
        StartsWith(f, list[i]) \/ StartsWith(f, AbsPath(list[i]))

UnderBoth(f) ==
    /\ StartsWithEntry(f, monitored_paths.include)
    /\ StartsWithEntry(f, monitored_paths.exclude)

\* the entries of a list of a report that name file f
EntriesOf(list, f) ==
    LET IsF(e) == e.file = f
    IN  SelectSeq(list, IsF)

InReport(c, f) ==
    \/ EntriesOf(c.added, f) # <<>>
    \/ EntriesOf(c.modified, f) # <<>>
    \/ EntriesOf(c.deleted, f) # <<>>

Returned == call.op = "check_integrity" /\ call.outcome = "ok"

PermsOf(f) == fs[f].mode % (PermMask + 1)

DigestOf(f) == Digest(Lower(algorithm), fs[f].content)

\* f is compared by the check that just returned: it is in both sets, its
\* metadata was read and its baseline entry fetched
Compared(f) ==
    /\ f \in chk.baseline_paths \cap chk.current_paths
    /\ fs[f].present
    /\ f \notin call.statFail
    /\ GetBaselineEntry(db, f) # NoEntry

----------------------------------------------------------------------------
(* C1 *)

\* the files of F that create_baseline stored: digest and metadata obtained,
\* and the put not failed
C1_Stored ==
    {f \in MonitoredFiles :
        /\ Lower(algorithm) \in AlgorithmsAvailable
        /\ f \notin call.ioFail \cup call.statFail \cup call.putFail}

\* C1, as stated: once create_baseline() has returned, the store's paths are
\* exactly the set F of files the walk finds and the matcher accepts,
\* whatever the store held before.
C1_AllPathsEqualF ==
    call.op = "create_baseline" => GetAllBaselinePaths(db) = MonitoredFiles

\* C1, amended: once create_baseline() has returned, the store's paths are
\* the paths it held before together with the files of F whose digest and
\* metadata were obtained and whose put was stored; so they are exactly F
\* when the store held no path outside F and every file of F was stored.
C1_AllPathsAfterBaseline ==
    call.op = "create_baseline" =>
        /\ GetAllBaselinePaths(db) = call.pre \cup C1_Stored
        /\ (call.pre \subseteq MonitoredFiles /\ C1_Stored = MonitoredFiles
                => GetAllBaselinePaths(db) = MonitoredFiles)

\* a second baseline that stores a file and keeps the path of a deleted one
C1_Witness ==
    /\ call.op = "create_baseline"
    /\ call.pre \ MonitoredFiles # {}
    /\ C1_Stored # {}
    /\ GetAllBaselinePaths(db) # MonitoredFiles

----------------------------------------------------------------------------
(* C2 *)

\* C2: when create_baseline() ran on an empty store and stored every
\* monitored file, and no monitored file was created, deleted or changed
\* since (nor the store), the report check_integrity() returns has empty
\* added, modified and deleted lists.
C2_UnchangedTreeEmptyReport ==
    (Returned /\ clean) => changes = NoChanges

C2_Witness ==
    /\ Returned
    /\ clean
    /\ Cardinality(GetAllBaselinePaths(db)) = 2
    /\ hashed = GetAllBaselinePaths(db)

----------------------------------------------------------------------------
(* C3 *)

\* C3: a file whose path starts with an include entry and with an exclude
\* entry is never in the store and never in the added, modified or deleted
\* list of a report, neither the one being built nor the one returned.
C3_ExcludeWins ==
    \A f \in AllFiles :
        UnderBoth(f) =>
            /\ f \notin GetAllBaselinePaths(db)
            /\ ~InReport(changes, f)
            /\ ~InReport(chk.changes, f)

\* a check that reports a change while a file under both lists exists
C3_Witness ==
    /\ Returned
    /\ \E f \in AllFiles : UnderBoth(f) /\ fs[f].present
    /\ db # {}
    /\ changes.modified # <<>>

----------------------------------------------------------------------------
(* C4 *)

\* what the comparison in the order size, modification time, permissions,
\* digest yields for file f: the entry of the first field that differs
C4_FirstDifference(f) ==
    LET row == GetBaselineEntry(db, f)
    IN  IF fs[f].size # row.file_size
        THEN <<Modified(f, "size_mismatch", row.file_size, fs[f].size)>>
        ELSE IF fs[f].mtime # row.modification_time
        THEN <<Modified(f, "mtime_mismatch", row.modification_time,
                        fs[f].mtime)>>
        ELSE IF PermsOf(f) # row.permissions
        THEN <<Modified(f, "permissions_mismatch", Oct(row.permissions),
                        Oct(PermsOf(f)))>>
        ELSE IF DigestOf(f) # row.file_hash
        THEN <<Modified(f, "hash_mismatch", row.file_hash, DigestOf(f))>>
        ELSE <<>>

C4_MetadataDiffers(f) ==
    LET row == GetBaselineEntry(db, f)
    IN  \/ fs[f].size # row.file_size
        \/ fs[f].mtime # row.modification_time
        \/ PermsOf(f) # row.permissions

\* the digest of f can be computed
C4_Readable(f) ==
    f \notin call.ioFail /\ Lower(algorithm) \in AlgorithmsAvailable

\* C4: for every compared file the returned report holds at most one
\* modified entry; it is the entry of the first field that differs in the
\* order size, modification time, permissions (shown by oct()), digest,
\* with the stored value as old and the filesystem's value as new. A
\* difference in size, time or permissions is always reported; a digest
\* difference is reported unless the file could not be read.
C4_FirstMismatchOnly ==
    Returned =>
        \A f \in AllFiles :
            Compared(f) =>
                /\ Len(EntriesOf(changes.modified, f)) <= 1
                /\ EntriesOf(changes.modified, f)
                        \in {<<>>, C4_FirstDifference(f)}
                /\ (C4_MetadataDiffers(f) \/ C4_Readable(f))
                        => EntriesOf(changes.modified, f) = C4_FirstDifference(f)

\* bytes were appended and the mode changed: size, time, permissions and
\* digest all differ, and the one entry says size_mismatch
C4_Witness ==
    /\ Returned
    /\ \E f \in AllFiles :
          LET row == GetBaselineEntry(db, f)
          IN  /\ Compared(f)
              /\ fs[f].size # row.file_size
              /\ fs[f].mtime # row.modification_time
              /\ PermsOf(f) # row.permissions
              /\ DigestOf(f) # row.file_hash
              /\ EntriesOf(changes.modified, f)
                    = <<Modified(f, "size_mismatch", row.file_size, fs[f].size)>>

----------------------------------------------------------------------------
(* C5 *)

\* C5: a check calls calculate_file_hash only on a file whose size,
\* modification time and permissions equal the stored ones; a compared file
\* with one of the three differing is reported and not hashed.
C5_HashOnlyWhenMetadataEqual ==
    call.op = "check_integrity" =>
        \A f \in AllFiles :
            /\ f \in hashed =>
                    /\ fs[f].present
                    /\ GetBaselineEntry(db, f) # NoEntry
                    /\ ~C4_MetadataDiffers(f)
            /\ (Returned /\ Compared(f) /\ C4_MetadataDiffers(f)) =>
                    /\ f \notin hashed
                    /\ Len(EntriesOf(changes.modified, f)) = 1

\* one file unchanged in its metadata and hashed, the other changed in its
\* metadata, reported and not hashed
C5_Witness ==
    /\ Returned
    /\ \E f, g \in AllFiles :
          /\ Compared(f) /\ f \in hashed
          /\ Compared(g) /\ C4_MetadataDiffers(g) /\ g \notin hashed
          /\ EntriesOf(changes.modified, g) # <<>>

----------------------------------------------------------------------------
(* C6 *)

C6_EdgeReason == "File exists but is not in baseline"

\* C6: every file that exists under an existing include root, is accepted
\* by the matcher and has no row in the store when the check reads the
\* store and walks the roots has exactly one entry in added, with a
\* non-empty reason; and no entry of added names a path the store held
\* then, but for the entry of a path whose row was gone when it was fetched.
C6_AddedIsCurrentMinusBaseline ==
    /\ call.op = "check_walk" =>
          /\ chk.baseline_paths = GetAllBaselinePaths(db)
          /\ chk.current_paths = MonitoredFiles
          /\ \A f \in MonitoredFiles \ GetAllBaselinePaths(db) :
                /\ Len(EntriesOf(chk.changes.added, f)) = 1
                /\ EntriesOf(chk.changes.added, f)[1].reason # ""
          /\ \A i \in 1..Len(chk.changes.added) :
                chk.changes.added[i].file \notin GetAllBaselinePaths(db)
    /\ Returned =>
          /\ \A f \in chk.current_paths \ chk.baseline_paths :
                /\ Len(EntriesOf(changes.added, f)) = 1
                /\ EntriesOf(changes.added, f)[1].reason # ""
          /\ \A i \in 1..Len(changes.added) :
                changes.added[i].file \in chk.baseline_paths
                    => changes.added[i].reason = C6_EdgeReason

\* a file created after the baseline is reported as added
C6_Witness ==
    /\ Returned
    /\ chk.baseline_paths # {}
    /\ \E f \in chk.current_paths \ chk.baseline_paths :
          EntriesOf(changes.added, f)
              = <<Added(f, "New file not in baseline")>>

----------------------------------------------------------------------------
(* C7 *)

\* C7: every path the store holds that the walk does not find has exactly
\* one entry in deleted, and no path the walk finds has one.
C7_DeletedIsBaselineMinusCurrent ==
    /\ call.op = "check_walk" =>
          /\ \A f \in GetAllBaselinePaths(db) \ MonitoredFiles :
                Len(EntriesOf(chk.changes.deleted, f)) = 1
          /\ \A f \in MonitoredFiles :
                EntriesOf(chk.changes.deleted, f) = <<>>
    /\ Returned =>
          /\ \A f \in chk.baseline_paths \ chk.current_paths :
                Len(EntriesOf(changes.deleted, f)) = 1
          /\ \A f \in chk.current_paths :
                EntriesOf(changes.deleted, f) = <<>>
          /\ Len(changes.deleted)
                = Cardinality(chk.baseline_paths \ chk.current_paths)

\* a baselined file was deleted and is reported, another one is still there
C7_Witness ==
    /\ Returned
    /\ \E f \in chk.baseline_paths :
          /\ ~fs[f].present
          /\ Len(EntriesOf(changes.deleted, f)) = 1
    /\ chk.current_paths \cap chk.baseline_paths # {}

----------------------------------------------------------------------------
(* C8 *)

RowsOf(d, file_path) == {r \in d : r.file_path = file_path}

C8_OneRowPerPath ==
    /\ \A r1, r2 \in db : r1.file_path = r2.file_path => r1 = r2
    /\ (call.op = "save_baseline_entry" /\ ~call.dbError) =>
          /\ RowsOf(db, call.path) = {call.row}
          /\ GetBaselineEntry(db, call.path) = call.row
    /\ (call.op = "get_baseline_entry" /\ call.outcome = "ok") =>
          got = GetBaselineEntry(db, call.path)

\* a step leaves the rows of every path alone but the path it puts or removes
C8_OtherStepsKeepRow ==
    \A f \in AllFiles :
        (call'.path # f \/ call'.dbError \/ call'.op = "get_baseline_entry")
            => RowsOf(db', f) = RowsOf(db, f)

\* C8: the store holds at most one row per path; a put leaves for its path
\* the row it was given and nothing else, every field replaced, the time of
\* writing included; no other step touches that row, and get returns it.
C8_PutReplacesWholeEntry ==
    []C8_OneRowPerPath /\ [][C8_OtherStepsKeepRow]_vars

\* a put over a row that differs from the new one in every field
C8_Witness ==
    /\ call.op = "save_baseline_entry"
    /\ ~call.dbError
    /\ call.prev # NoEntry
    /\ call.prev.file_hash # call.row.file_hash
    /\ call.prev.file_size # call.row.file_size
    /\ call.prev.modification_time # call.row.modification_time
    /\ call.prev.creation_time # call.row.creation_time
    /\ call.prev.permissions # call.row.permissions
    /\ call.prev.baseline_timestamp # call.row.baseline_timestamp
    /\ RowsOf(db, call.path) = {call.row}

----------------------------------------------------------------------------
(* C9 *)

\* C9: a put during which the storage fails ends in an error its caller
\* sees, and a put that returns normally has stored its row.
C9_PutNeverFailsSilently ==
    call.op = "save_baseline_entry" =>
        /\ call.dbError => call.outcome = "raised"
        /\ call.outcome = "ok" => call.row \in db

----------------------------------------------------------------------------
(* C10 *)

\* C10: create_baseline() and check_integrity() end in a failure their
\* caller sees, exit status 1, whenever the store failed inside them.
C10_StoreFailureIsFatal ==
    (call.op \in {"create_baseline", "check_integrity"} /\ call.dbError) =>
        /\ call.outcome = "raised"
        /\ ExitCode(call) = 1

----------------------------------------------------------------------------
(* C11 *)

\* the monitored files create_baseline call c could not hash or stat
C11_FailedInBaseline(c) ==
    {f \in MonitoredFiles :
        \/ f \in c.ioFail \cup c.statFail
        \/ Lower(algorithm) \notin AlgorithmsAvailable}

\* the row create_baseline writes for file g at the time of the clock
C11_FreshRow(g) ==
    Row(g, DigestOf(g), fs[g].size, fs[g].mtime, fs[g].ctime, PermsOf(g), now)

\* a create_baseline step returns normally, leaves the rows of a file it
\* could not hash or stat as they were, and writes the row of every other
\* monitored file whose put the storage carried out
C11_BaselineSkipsFailing ==
    call'.op = "create_baseline" =>
        /\ call'.outcome = "ok"
        /\ \A f \in C11_FailedInBaseline(call') : RowsOf(db', f) = RowsOf(db, f)
        /\ \A g \in MonitoredFiles \ (C11_FailedInBaseline(call')
                                        \cup call'.putFail) :
                RowsOf(db', g) = {C11_FreshRow(g)}

\* the files of the intersection the check just made could not stat
\* (vanished since the walk, or os.stat failed) or could not hash
C11_FailedInCheck ==
    {f \in chk.baseline_paths \cap chk.current_paths :
        \/ ~fs[f].present
        \/ f \in call.statFail
        \/ f \in hashed /\ ~C4_Readable(f)}

\* a check in which the store did not fail returns normally, reports
\* nothing for a file it could not stat or hash, and reports every other
\* file as the comparison and the walk alone determine
C11_CheckSkipsFailing ==
    (call.op = "check_integrity" /\ ~call.dbError) =>
        /\ call.outcome = "ok"
        /\ \A f \in C11_FailedInCheck : ~InReport(changes, f)
        /\ \A g \in AllFiles \ C11_FailedInCheck :
              /\ Compared(g) =>
                    EntriesOf(changes.modified, g) = C4_FirstDifference(g)
              /\ g \notin chk.baseline_paths \cap chk.current_paths =>
                    /\ EntriesOf(changes.added, g)
                            = EntriesOf(chk.changes.added, g)
                    /\ EntriesOf(changes.deleted, g)
                            = EntriesOf(chk.changes.deleted, g)
                    /\ EntriesOf(changes.modified, g) = <<>>

\* C11: a failure local to one file (stat fails, the digest cannot be
\* computed, the file vanished) never aborts create_baseline() or
\* check_integrity(): the call returns normally, the failing file gets no
\* row written and no report entry, and every other monitored file is
\* stored or reported as it is without the failing one.
C11_PerFileFailureIsLocal ==
    []C11_CheckSkipsFailing /\ [][C11_BaselineSkipsFailing]_vars

\* a check that could not stat one baselined file and reports a change of
\* the other
C11_Witness ==
    /\ Returned
    /\ \E f \in C11_FailedInCheck, g \in AllFiles \ C11_FailedInCheck :
          /\ f \in call.statFail
          /\ Compared(g)
          /\ EntriesOf(changes.modified, g) # <<>>

----------------------------------------------------------------------------
(* C12 *)

\* the rows of table d without the time they were written at
C12_Entries(d) == {[r EXCEPT !.baseline_timestamp = 0] : r \in d}

\* create_baseline() returns a second time right after it returned, the
\* tree untouched in between and the same files unreadable both times
C12_TwiceInARow ==
    /\ call.op = "create_baseline"
    /\ call'.op = "create_baseline"
    /\ call'.ioFail = call.ioFail
    /\ call'.statFail = call.statFail

\* C12: create_baseline() called twice in a row without a change of the
\* filesystem leaves the store with the paths it held after the first call
\* and, for each path, the same hash, size, modification time, creation
\* time and permissions; only the time of writing may differ.
C12_BaselineIdempotent ==
    [][C12_TwiceInARow => C12_Entries(db') = C12_Entries(db)]_vars

\* the same, for two calls in which the storage carried out every put
C12_IdempotentWhenPutsStored ==
    [][(C12_TwiceInARow /\ call.putFail = {} /\ call'.putFail = {})
            => C12_Entries(db') = C12_Entries(db)]_vars

----------------------------------------------------------------------------
(* C13 *)

\* the reference predicate: no exclude entry, resolved to an absolute path,
\* is a prefix of the path, and some include entry so resolved is
C13_Reference(file_path) ==
    /\ ~ \E i \in 1..Len(monitored_paths.exclude) :
            StartsWith(file_path, AbsPath(monitored_paths.exclude[i]))
    /\ \E i \in 1..Len(monitored_paths.include) :
            StartsWith(file_path, AbsPath(monitored_paths.include[i]))

\* C13: _is_path_monitored(path) is false when an exclude entry, resolved
\* to an absolute path, is a raw prefix of path; otherwise it is true iff
\* an include entry so resolved is a raw prefix of path; it is false when
\* both lists are empty; the prefix test does not stop at a separator, so
\* an include of /d accepts /d2/x.
C13_MatcherIsRawPrefixTest ==
    call.op = "_is_path_monitored" =>
        /\ call.monitored = C13_Reference(call.path)
        /\ (monitored_paths = Config4) => ~call.monitored
        /\ (monitored_paths = Config8 /\ call.path = PathD2X) => call.monitored

\* /d2/x is accepted under an include of /d that some exclude entry goes with
C13_Witness ==
    /\ call.op = "_is_path_monitored"
    /\ call.path = PathD2X
    /\ monitored_paths.exclude # <<>>
    /\ call.monitored

----------------------------------------------------------------------------
(* C14 *)

\* what the exit-code contract says of check and init, and that status
\* and check leave a missing database file missing
C14_CheckAndInit ==
    /\ call.op = "check" =>
          /\ ~call.database => call.exit = 1
          /\ (call.database /\ call.outcome = "ok") => call.exit = 0
          /\ call.outcome = "raised" => call.exit = 1
    /\ call.op = "init" =>
          /\ call.outcome = "raised" => call.exit = 1
          /\ call.outcome = "ok" => call.exit = 0
    /\ (call.op \in {"check", "status"} /\ ~call.database) => ~db_exists

\* C14, as stated: status exits 0 when the database file exists and when
\* it does not; check exits 1 without a database file and 0 when the check
\* completes, drift or none; init and check exit 1 when create_baseline()
\* or check_integrity() raises; status and check do not create the file.
C14_ExitCodes ==
    /\ C14_CheckAndInit
    /\ call.op = "status" => call.exit = 0

\* C14, amended: status exits 0 when the database file does not exist and
\* when it exists and its rows are read, and exits 1 when it exists and
\* reading it raises; the rest as stated.
C14_ExitCodesStatusReads ==
    /\ C14_CheckAndInit
    /\ call.op = "status" =>
          /\ ~call.database => call.exit = 0
          /\ (call.database /\ call.outcome = "ok") => call.exit = 0
          /\ (call.database /\ call.outcome = "raised") => call.exit = 1

\* a check that completed and found drift exits 0
C14_Witness ==
    /\ call.op = "check"
    /\ call.database
    /\ call.outcome = "ok"
    /\ changes.modified # <<>>
    /\ changes.deleted # <<>>
    /\ call.exit = 0

----------------------------------------------------------------------------
(* C15 *)

\* C15: calculate_file_hash(path, algorithm) returns a digest only when
\* the path exists and the lower-cased algorithm name is available, and
\* then the digest of the file's content under that algorithm; it raises
\* FileNotFoundError when the path does not exist, ValueError for every
\* existing path when the name is not available, and when reading fails it
\* raises and returns no digest, partial or whole.
C15_DigestOrError ==
    call.op = "calculate_file_hash" =>
        LET supported == Lower(call.alg) \in AlgorithmsAvailable
        IN  /\ call.hash.ok =>
                  /\ Exists(call.path)
                  /\ supported
                  /\ call.path \in AllFiles
                  /\ call.hash.value
                        = Digest(Lower(call.alg), fs[call.path].content)
            /\ ~Exists(call.path) =>
                  ~call.hash.ok /\ call.hash.err = "FileNotFoundError"
            /\ (Exists(call.path) /\ ~supported) =>
                  ~call.hash.ok /\ call.hash.err = "ValueError"
            /\ (Exists(call.path) /\ supported /\ call.ioFail # {}) =>
                  /\ ~call.hash.ok
                  /\ call.hash.value = <<>>
                  /\ call.outcome = "raised"
            /\ call.hash.ok <=> call.outcome = "ok"

\* an algorithm named in upper case gives the digest of what the file
\* holds after it was rewritten
C15_Witness ==
    /\ call.op = "calculate_file_hash"
    /\ call.alg = AlgSHA256
    /\ call.hash.ok
    /\ call.hash.value = Digest(Lower(AlgSHA256), "world")

\* a path that does not exist, hashed under a name that is not available
C15_WitnessNotFound ==
    /\ call.op = "calculate_file_hash"
    /\ call.path \in AllFiles
    /\ ~Exists(call.path)
    /\ call.alg = AlgBogus
    /\ call.hash.err = "FileNotFoundError"

----------------------------------------------------------------------------
(* C16 *)

\* what remove leaves behind when it deleted the row of its path
C16_Removed ==
    /\ call.outcome = "ok"
    /\ GetBaselineEntry(db, call.path) = NoEntry
    /\ call.path \notin GetAllBaselinePaths(db)
    /\ GetAllBaselinePaths(db) = call.pre \ {call.path}

\* a step of remove leaves the rows of every other path as they were
C16_OthersKept ==
    call'.op = "remove_baseline_entry" =>
        \A f \in AllFiles \ {call'.path} : RowsOf(db', f) = RowsOf(db, f)

\* C16: after remove_baseline_entry(path) the store has no entry for path,
\* get returns none and the paths no longer contain it; without an entry
\* the call changes nothing and raises no error; the entries of all other
\* paths are as before.
C16_RemoveDeletesEntry ==
    [](call.op = "remove_baseline_entry" => C16_Removed)
        /\ [][C16_OthersKept]_vars

\* the same, for a remove the storage carried out
C16_RemoveDeletesWhenStorageWorks ==
    []((call.op = "remove_baseline_entry" /\ ~call.dbError) => C16_Removed)
        /\ [][C16_OthersKept]_vars

----------------------------------------------------------------------------
(* C17 *)

\* the files that were in the store and found by the walk, and are gone or
\* closed to os.stat when the loop comes to them
C17_Vanished ==
    {f \in chk.baseline_paths \cap chk.current_paths :
        ~fs[f].present \/ f \in call.statFail}

\* C17: when a file of the store that the walk found is gone, or cannot be
\* read by os.stat, by the time its metadata is fetched, check_integrity()
\* still returns, its report has no added, modified or deleted entry for
\* that file, and it has the entries of all other paths: those the walk
\* listed as added and deleted, and the difference of every file compared.
C17_VanishedFileSilentlySkipped ==
    (call.op = "check_integrity" /\ C17_Vanished # {} /\ ~call.dbError) =>
        /\ call.outcome = "ok"
        /\ \A f \in C17_Vanished :
              /\ EntriesOf(changes.added, f) = <<>>
              /\ EntriesOf(changes.modified, f) = <<>>
              /\ EntriesOf(changes.deleted, f) = <<>>
        /\ Len(changes.deleted) = Len(chk.changes.deleted)
        /\ \A i \in 1..Len(chk.changes.added) :
              changes.added[i] = chk.changes.added[i]
        /\ \A g \in AllFiles \ C17_Vanished :
              (Compared(g) /\ (C4_MetadataDiffers(g) \/ C4_Readable(g))) =>
                    EntriesOf(changes.modified, g) = C4_FirstDifference(g)

\* a baselined file deleted between the walk and the loop, while the other
\* file is reported as modified
C17_Witness ==
    /\ Returned
    /\ \E f \in C17_Vanished, g \in AllFiles :
          /\ ~fs[f].present
          /\ g # f
          /\ EntriesOf(changes.modified, g) # <<>>

----------------------------------------------------------------------------
(* C18 *)

\* a check command leaves every row of the store, and the database file
C18_StoreKept ==
    call'.op = "check" => (db' = db /\ db_exists' = db_exists)

\* a check that returns right after a check returned, nothing having
\* happened in between and the same files unreadable, returns its report
C18_SameReport ==
    (/\ call.op = "check" /\ call.outcome = "ok"
     /\ call'.op = "check" /\ call'.outcome = "ok"
     /\ call'.ioFail = call.ioFail
     /\ call'.statFail = call.statFail) => changes' = changes

\* C18: check_integrity() only reads the baseline: the rows of the store,
\* the time of writing included, are after the call, returned or raised,
\* what they were before it; so a check repeated on an unchanged
\* filesystem returns the same report.
C18_CheckIsReadOnly ==
    [][C18_StoreKept /\ C18_SameReport]_vars

\* a check over a store with two rows has returned a report with an entry
C18_Witness ==
    /\ call.op = "check"
    /\ call.outcome = "ok"
    /\ Cardinality(db) = 2
    /\ changes.deleted # <<>>

----------------------------------------------------------------------------
(* C19 *)

\* how many entries of report c name file f, the three lists together
C19_Count(c, f) ==
    Len(EntriesOf(c.added, f)) + Len(EntriesOf(c.modified, f))
        + Len(EntriesOf(c.deleted, f))

C19_Files(list) == {list[i].file : i \in 1..Len(list)}

\* C19: in a report check_integrity() returns every path has at most one
\* entry, the lists added, modified and deleted taken together, also when
\* a file lies under two include roots; every modified path was in the
\* store and found by the walk, every deleted path was in the store and not
\* found, and every entry names a file of the store or of the walk.
C19_OneEntryPerPath ==
    Returned =>
        /\ \A f \in AllFiles : C19_Count(changes, f) <= 1
        /\ C19_Files(changes.modified)
                \subseteq chk.baseline_paths \cap chk.current_paths
        /\ C19_Files(changes.deleted)
                \subseteq chk.baseline_paths \ chk.current_paths
        /\ C19_Files(changes.added) \subseteq chk.current_paths
        /\ Len(changes.added) + Len(changes.modified) + Len(changes.deleted)
                <= Cardinality(chk.baseline_paths \cup chk.current_paths)

\* the walk visits a file under two include roots twice, the report has
\* one entry for it and one for the other file
C19_Witness ==
    /\ Returned
    /\ Len(ScanList) > Cardinality(Range(ScanList))
    /\ \E f, g \in AllFiles :
          /\ f # g
          /\ Len(SelectSeq(ScanList, LAMBDA x : x = f)) = 2
          /\ C19_Count(changes, f) = 1
          /\ C19_Count(changes, g) = 1

====
